---------------------------- MODULE Spec2Model ----------------------------
(***************************************************************************)
(* A model of the arena-allocated B+tree of src/src/lib.rs: the search     *)
(* primitive lower_bound, LeafNode, InternalNode and the BTree driver.     *)
(*                                                                         *)
(* Arrays and Vecs are functions over 0..len-1, so that an index of the    *)
(* model is the index of the code.  A fixed-size array keeps the slots at  *)
(* and after cnt (K::default() at first, stale data after a split), as the *)
(* code does.  NODE_DEG is 32 in the source; the model takes a small       *)
(* degree so that splits on every level happen within a few keys.          *)
(***************************************************************************)
EXTENDS Integers, Sequences, FiniteSets, TLC

\* src/src/lib.rs:19 sets NODE_DEG to 32; the model scales it down.
NODE_DEG == 3

\* Keys are 0..MaxKey (K = u16 in tests::test_bree_1, 0 is K::default()).
MaxKey == 3

Keys == 0..MaxKey
Vals == {1, 2}

\* The dense keys 0..DenseMax, each inserted with itself as its value, as in
\* tests::bench_insert_dense_keys (t.insert(&i, &i)), in any order.
DenseMax == 5

DenseKeys == 0..DenseMax

\* The ascending run 0, 1, ..., NODE_DEG^2: NODE_DEG^2 + 1 distinct keys.
AscKeys == 0..(NODE_DEG * NODE_DEG)

\* The longest slice handed to lower_bound by the harness.
MaxLen == 4

\* K::default() and V::default() of the integer types the tests use.
KDefault == 0
VDefault == 0

-----------------------------------------------------------------------------
(* Option<T>, NodeIndex, arrays, Vec *)

None == [some |-> FALSE, val |-> 0]
Some(x) == [some |-> TRUE, val |-> x]

Leaf(n) == [tag |-> "Leaf", id |-> n]
Internal(n) == [tag |-> "Internal", id |-> n]

\* NodeIndex::default()
NodeIndexDefault == Leaf(0)

\* a.len()
VLen(a) == Cardinality(DOMAIN a)

\* [x; n]
Fill(n, x) == [j \in 0..(n - 1) |-> x]

\* The range check of &a[lo..hi]: lo <= hi and hi <= a.len(), or it panics.
SliceOk(a, lo, hi) == 0 <= lo /\ lo <= hi /\ hi <= VLen(a)

\* &a[lo..hi]; "panic" stands for the panic of the range check.
Slice(a, lo, hi) ==
    IF SliceOk(a, lo, hi) THEN [j \in 0..(hi - lo - 1) |-> a[lo + j]] ELSE "panic"

\* std::ptr::copy(&src[s], &mut dst[d], count) with every slot in bounds:
\* a memmove, all reads see the old contents.  Slots of dst past its end
\* are not part of dst.
Copy(src, s, dst, d, count) ==
    [j \in DOMAIN dst |-> IF j >= d /\ j < d + count THEN src[s + (j - d)] ELSE dst[j]]

\* Vec::push
Push(vec, x) == [j \in 0..VLen(vec) |-> IF j = VLen(vec) THEN x ELSE vec[j]]

-----------------------------------------------------------------------------
(* lower_bound *)

\* Mutant: the comparison is <=, which skips the elements equal to val.
RECURSIVE lower_bound_loop_le(_, _, _, _)
lower_bound_loop_le(a, val, lo, hi) ==
    IF lo < hi
    THEN LET mid == (lo + hi) \div 2
         IN  IF a[mid] <= val
             THEN lower_bound_loop_le(a, val, mid + 1, hi)
             ELSE lower_bound_loop_le(a, val, lo, mid)
    ELSE lo

RECURSIVE lower_bound_loop(_, _, _, _)
lower_bound_loop(a, val, lo, hi) ==
    IF lo < hi
    THEN LET mid == (lo + hi) \div 2
         IN  IF a[mid] < val
             THEN lower_bound_loop(a, val, mid + 1, hi)
             ELSE lower_bound_loop(a, val, lo, mid)
    ELSE lo

lower_bound(a, val) ==
    IF VLen(a) = 0 THEN 0
    ELSE IF a[VLen(a) - 1] < val THEN VLen(a)
    ELSE lower_bound_loop(a, val, 0, VLen(a) - 1)

-----------------------------------------------------------------------------
(* LeafNode *)

LeafNode_new == [keys |-> Fill(NODE_DEG, KDefault),
                 values |-> Fill(NODE_DEG, VDefault),
                 cnt |-> 0]

\* Mutant: full only once the capacity is exceeded.
LeafNode_full_late(n) == n.cnt > VLen(n.keys)

LeafNode_full(n) == n.cnt = VLen(n.keys)

\* Mutant: the key at the lower bound is not compared with k; the pair is
\* always inserted.
LeafNode_insert_dup(n, k, v) ==
    IF LeafNode_full(n)
    THEN [node |-> n, ret |-> None, fault |-> "panic"]
    ELSE LET i == lower_bound(Slice(n.keys, 0, n.cnt), k)
         IN  IF i = n.cnt
             THEN [node |-> [keys |-> [n.keys EXCEPT ![n.cnt] = k],
                             values |-> [n.values EXCEPT ![n.cnt] = v],
                             cnt |-> n.cnt + 1],
                   ret |-> None, fault |-> "none"]
             ELSE [node |-> [keys |-> [Copy(n.keys, i, n.keys, i + 1, n.cnt - i)
                                          EXCEPT ![i] = k],
                             values |-> [Copy(n.values, i, n.values, i + 1, n.cnt - i)
                                          EXCEPT ![i] = v],
                             cnt |-> n.cnt + 1],
                   ret |-> None, fault |-> "none"]

\* Mutant: the values are not shifted with the keys.
LeafNode_insert_novalshift(n, k, v) ==
    IF LeafNode_full(n)
    THEN [node |-> n, ret |-> None, fault |-> "panic"]
    ELSE LET i == lower_bound(Slice(n.keys, 0, n.cnt), k)
         IN  IF i = n.cnt
             THEN [node |-> [keys |-> [n.keys EXCEPT ![n.cnt] = k],
                             values |-> [n.values EXCEPT ![n.cnt] = v],
                             cnt |-> n.cnt + 1],
                   ret |-> None, fault |-> "none"]
             ELSE IF n.keys[i] = k
             THEN [node |-> [n EXCEPT !.values[i] = v],
                   ret |-> Some(n.values[i]), fault |-> "none"]
             ELSE [node |-> [keys |-> [Copy(n.keys, i, n.keys, i + 1, n.cnt - i)
                                          EXCEPT ![i] = k],
                             values |-> [n.values EXCEPT ![i] = v],
                             cnt |-> n.cnt + 1],
                   ret |-> None, fault |-> "none"]

\* The result of LeafNode::insert: the node afterwards, the returned
\* Option<V>, and fault = "panic" when assert!(!self.full()) fires.
LeafNode_insert(n, k, v) ==
    IF LeafNode_full(n)
    THEN [node |-> n, ret |-> None, fault |-> "panic"]
    ELSE LET i == lower_bound(Slice(n.keys, 0, n.cnt), k)
         IN  IF i = n.cnt
             THEN [node |-> [keys |-> [n.keys EXCEPT ![n.cnt] = k],
                             values |-> [n.values EXCEPT ![n.cnt] = v],
                             cnt |-> n.cnt + 1],
                   ret |-> None, fault |-> "none"]
             ELSE IF n.keys[i] = k
             THEN [node |-> [n EXCEPT !.values[i] = v],
                   ret |-> Some(n.values[i]), fault |-> "none"]
             ELSE [node |-> [keys |-> [Copy(n.keys, i, n.keys, i + 1, n.cnt - i)
                                          EXCEPT ![i] = k],
                             values |-> [Copy(n.values, i, n.values, i + 1, n.cnt - i)
                                          EXCEPT ![i] = v],
                             cnt |-> n.cnt + 1],
                   ret |-> None, fault |-> "none"]

\* Mutant: the key found at the lower bound is not compared with k.
LeafNode_lookup_nocmp(n, k) ==
    LET i == lower_bound(Slice(n.keys, 0, n.cnt), k)
    IN  IF i = n.cnt THEN None ELSE Some(n.values[i])

LeafNode_lookup(n, k) ==
    LET i == lower_bound(Slice(n.keys, 0, n.cnt), k)
    IN  IF i = n.cnt THEN None
        ELSE IF n.keys[i] = k THEN Some(n.values[i])
        ELSE None

\* Mutant: the left half takes the larger share, ceil(cnt / 2).
LeafNode_split_ceil(n) ==
    LET left_cnt == (n.cnt + 1) \div 2
        right == [keys |-> Copy(n.keys, left_cnt, LeafNode_new.keys, 0, n.cnt - left_cnt),
                  values |-> Copy(n.values, left_cnt, LeafNode_new.values, 0, n.cnt - left_cnt),
                  cnt |-> n.cnt - left_cnt]
        left == [n EXCEPT !.cnt = left_cnt]
    IN  IF left_cnt = 0
        THEN [left |-> left, key |-> KDefault, right |-> right, fault |-> "panic"]
        ELSE [left |-> left, key |-> left.keys[left.cnt - 1], right |-> right,
              fault |-> "none"]

\* LeafNode::split: left is self afterwards, key the returned separator.
\* self.keys[self.cnt - 1] panics when the left half is empty (cnt < 2).
LeafNode_split(n) ==
    LET left_cnt == n.cnt \div 2
        right == [keys |-> Copy(n.keys, left_cnt, LeafNode_new.keys, 0, n.cnt - left_cnt),
                  values |-> Copy(n.values, left_cnt, LeafNode_new.values, 0, n.cnt - left_cnt),
                  cnt |-> n.cnt - left_cnt]
        left == [n EXCEPT !.cnt = left_cnt]
    IN  IF left_cnt = 0
        THEN [left |-> left, key |-> KDefault, right |-> right, fault |-> "panic"]
        ELSE [left |-> left, key |-> left.keys[left.cnt - 1], right |-> right,
              fault |-> "none"]

-----------------------------------------------------------------------------
(* InternalNode *)

\* Mutant: i.sons[0] = first is left out, sons[0] stays NodeIndex::default().
InternalNode_new_nofirst(first) ==
    [keys |-> Fill(NODE_DEG - 1, KDefault),
     sons |-> Fill(NODE_DEG, NodeIndexDefault),
     cnt |-> 1]

InternalNode_new(first) ==
    [keys |-> Fill(NODE_DEG - 1, KDefault),
     sons |-> [Fill(NODE_DEG, NodeIndexDefault) EXCEPT ![0] = first],
     cnt |-> 1]

\* Mutant: full only once the capacity is exceeded.
InternalNode_full_late(n) == n.cnt > VLen(n.sons)

InternalNode_full(n) == n.cnt = VLen(n.sons)

\* InternalNode::lookup (the println! is not modelled): the index i and
\* sons[i].  self.cnt - 1 with cnt = 0 (overflow, or a slice end out of
\* range), a slice end past keys and sons[i] past sons panic.
InternalNode_lookup(n, k) ==
    IF n.cnt = 0 \/ ~SliceOk(n.keys, 0, n.cnt - 1)
    THEN [pos |-> 0, son |-> NodeIndexDefault, fault |-> "panic"]
    ELSE LET i == lower_bound(Slice(n.keys, 0, n.cnt - 1), k)
         IN  IF i < VLen(n.sons)
             THEN [pos |-> i, son |-> n.sons[i], fault |-> "none"]
             ELSE [pos |-> i, son |-> NodeIndexDefault, fault |-> "panic"]

\* Mutant: self.cnt += 1 is left out.
InternalNode_insert_nocnt(n, pos, left_max, right) ==
    LET keys1 == IF pos < n.cnt THEN Copy(n.keys, pos - 1, n.keys, pos, n.cnt - pos)
                 ELSE n.keys
        sons1 == IF pos < n.cnt THEN Copy(n.sons, pos, n.sons, pos + 1, n.cnt - pos)
                 ELSE n.sons
    IN  [node |-> [keys |-> [keys1 EXCEPT ![pos - 1] = left_max],
                   sons |-> [sons1 EXCEPT ![pos] = right],
                   cnt |-> n.cnt],
         fault |-> "none"]

\* Mutant: the sons are not shifted before the new son is written.
InternalNode_insert_noshift(n, pos, left_max, right) ==
    LET keys1 == IF pos < n.cnt THEN Copy(n.keys, pos - 1, n.keys, pos, n.cnt - pos)
                 ELSE n.keys
    IN  [node |-> [keys |-> [keys1 EXCEPT ![pos - 1] = left_max],
                   sons |-> [n.sons EXCEPT ![pos] = right],
                   cnt |-> n.cnt + 1],
         fault |-> "none"]

\* InternalNode::insert.  The method has no assert: its only checks are the
\* bounds checks of the indexing expressions keys[pos-1], keys[pos],
\* sons[pos], sons[pos+1], which panic.  The two ptr::copy calls are
\* unchecked: with cnt - pos elements they write keys[pos .. cnt) and
\* sons[pos+1 .. cnt+1), which leaves the arrays exactly when the node is
\* full (fault "ub": undefined behaviour).  node is the node as the
\* in-bounds writes leave it.
InternalNode_insert(n, pos, left_max, right) ==
    LET klen == VLen(n.keys)
        slen == VLen(n.sons)
        shift == pos < n.cnt
        idx_ok == /\ pos >= 1
                  /\ pos - 1 < klen
                  /\ pos < slen
                  /\ shift => (pos < klen /\ pos + 1 < slen)
        in_bounds == shift => (n.cnt <= klen /\ n.cnt + 1 <= slen)
        keys1 == IF shift THEN Copy(n.keys, pos - 1, n.keys, pos, n.cnt - pos)
                 ELSE n.keys
        sons1 == IF shift THEN Copy(n.sons, pos, n.sons, pos + 1, n.cnt - pos)
                 ELSE n.sons
    IN  IF ~idx_ok
        THEN [node |-> n, fault |-> "panic"]
        ELSE [node |-> [keys |-> [keys1 EXCEPT ![pos - 1] = left_max],
                        sons |-> [sons1 EXCEPT ![pos] = right],
                        cnt |-> n.cnt + 1],
              fault |-> IF in_bounds THEN "none" ELSE "ub"]

\* What a field of a node can hold after a copy went past the end of an
\* array, or what a read past the end of an array gives: the bytes of the
\* elements copied and of the fields and objects next to the array.  A cnt
\* above NODE_DEG + 1 is taken as NODE_DEG + 1, a key outside Keys as
\* MaxKey + 1, the id of a handle above NODE_DEG as NODE_DEG, and a handle
\* whose tag is neither Leaf nor Internal as the handle with the tag "Wild".
HavocCnt == 0..(NODE_DEG + 1)

HavocKeys == Keys \cup {MaxKey + 1}

HavocSons ==
    {[tag |-> tag, id |-> id] : tag \in {"Leaf", "Internal"}, id \in 0..NODE_DEG}
    \cup {[tag |-> "Wild", id |-> 0]}

\* What a call of InternalNode::insert can do: the one defined result, or,
\* under undefined behaviour (a full node, pos < cnt), returning, panicking
\* or aborting, with any node.  The copy of the keys writes one key past
\* keys, onto the field the compiler put there; when that is cnt, the count
\* of the copy of the sons, self.cnt - pos, is computed from the key: it
\* panics on overflow or wraps, and fewer or more sons are copied, past sons
\* at least by one, onto keys and cnt or onto the next object.
InternalNode_insert_outcomes(n, pos, left_max, right) ==
    LET r == InternalNode_insert(n, pos, left_max, right)
        ks == HavocKeys \cup {n.keys[j] : j \in DOMAIN n.keys} \cup {left_max}
        ss == HavocSons \cup {n.sons[j] : j \in DOMAIN n.sons} \cup {right}
        cs == HavocCnt \cup {n.cnt, n.cnt + 1}
    IN  IF r.fault = "ub"
        THEN {[node |-> [keys |-> k, sons |-> so, cnt |-> c], fault |-> f] :
                  k \in [DOMAIN n.keys -> ks], so \in [DOMAIN n.sons -> ss],
                  c \in cs, f \in {"none", "panic"}}
             \cup {[node |-> n, fault |-> "abort"]}
        ELSE {r}

\* Mutant: the separator returned is keys[left_cnt], one slot too far.
InternalNode_split_sep(n) ==
    LET klen == VLen(n.keys)
        slen == VLen(n.sons)
        left_cnt == n.cnt \div 2
        right_cnt == n.cnt - left_cnt
        left == [n EXCEPT !.cnt = left_cnt]
    IN  IF left_cnt >= klen
        THEN [left |-> left, key |-> KDefault, right |-> n, fault |-> "panic"]
        ELSE IF right_cnt = 0 \/ n.cnt - 1 > klen \/ n.cnt > slen
        THEN [left |-> left, key |-> KDefault, right |-> n, fault |-> "ub"]
        ELSE IF left_cnt = 0
        THEN [left |-> left, key |-> KDefault, right |-> n, fault |-> "panic"]
        ELSE [left |-> left,
              key |-> n.keys[left_cnt],
              right |-> [keys |-> Copy(n.keys, left_cnt,
                                       Fill(NODE_DEG - 1, KDefault), 0, right_cnt - 1),
                         sons |-> Copy(n.sons, left_cnt,
                                       Fill(NODE_DEG, NodeIndexDefault), 0, right_cnt),
                         cnt |-> right_cnt],
              fault |-> "none"]

\* Mutant: the keys of the right node are copied from keys[left_cnt - 1] on,
\* the separator with them.
InternalNode_split_keys(n) ==
    LET klen == VLen(n.keys)
        slen == VLen(n.sons)
        left_cnt == n.cnt \div 2
        right_cnt == n.cnt - left_cnt
        left == [n EXCEPT !.cnt = left_cnt]
    IN  IF left_cnt >= klen
        THEN [left |-> left, key |-> KDefault, right |-> n, fault |-> "panic"]
        ELSE IF right_cnt = 0 \/ n.cnt - 1 > klen \/ n.cnt > slen
        THEN [left |-> left, key |-> KDefault, right |-> n, fault |-> "ub"]
        ELSE IF left_cnt = 0
        THEN [left |-> left, key |-> KDefault, right |-> n, fault |-> "panic"]
        ELSE [left |-> left,
              key |-> n.keys[left_cnt - 1],
              right |-> [keys |-> Copy(n.keys, left_cnt - 1,
                                       Fill(NODE_DEG - 1, KDefault), 0, right_cnt - 1),
                         sons |-> Copy(n.sons, left_cnt,
                                       Fill(NODE_DEG, NodeIndexDefault), 0, right_cnt),
                         cnt |-> right_cnt],
              fault |-> "none"]

\* InternalNode::split: left is self afterwards, key the returned separator.
\* In the order of the code: &self.keys[left_cnt] is bounds-checked (panic);
\* right_cnt - 1 with right_cnt = 0 panics with overflow checks and is a
\* copy of usize::MAX elements without them, and the unchecked copies read
\* self.keys[left_cnt .. cnt - 1) and self.sons[left_cnt .. cnt), past the
\* arrays when cnt is too large (fault "ub"); self.keys[left_cnt - 1]
\* panics when left_cnt = 0.
InternalNode_split(n) ==
    LET klen == VLen(n.keys)
        slen == VLen(n.sons)
        left_cnt == n.cnt \div 2
        right_cnt == n.cnt - left_cnt
        left == [n EXCEPT !.cnt = left_cnt]
    IN  IF left_cnt >= klen
        THEN [left |-> left, key |-> KDefault, right |-> n, fault |-> "panic"]
        ELSE IF right_cnt = 0 \/ n.cnt - 1 > klen \/ n.cnt > slen
        THEN [left |-> left, key |-> KDefault, right |-> n, fault |-> "ub"]
        ELSE IF left_cnt = 0
        THEN [left |-> left, key |-> KDefault, right |-> n, fault |-> "panic"]
        ELSE [left |-> left,
              key |-> n.keys[left_cnt - 1],
              right |-> [keys |-> Copy(n.keys, left_cnt,
                                       Fill(NODE_DEG - 1, KDefault), 0, right_cnt - 1),
                         sons |-> Copy(n.sons, left_cnt,
                                       Fill(NODE_DEG, NodeIndexDefault), 0, right_cnt),
                         cnt |-> right_cnt],
              fault |-> "none"]

\* What a call of InternalNode::split can do: the one defined result, or,
\* under undefined behaviour: with right_cnt = 0 a panic (overflow checks)
\* or an abort (the copy of usize::MAX elements faults); with reads past
\* the arrays an abort, or a return with any key and any handle in the
\* slots of right that were read past the end.
InternalNode_split_outcomes(n) ==
    LET r == InternalNode_split(n)
        klen == VLen(n.keys)
        slen == VLen(n.sons)
        left_cnt == n.cnt \div 2
        right_cnt == n.cnt - left_cnt
    IN  IF r.fault # "ub" THEN {r}
        ELSE IF right_cnt = 0
        THEN {[r EXCEPT !.fault = "panic"], [r EXCEPT !.fault = "abort"]}
        ELSE {[r EXCEPT !.fault = "abort"]} \cup
             {[left |-> r.left,
               key |-> IF left_cnt >= 1 THEN n.keys[left_cnt - 1] ELSE KDefault,
               right |-> [keys |-> [j \in 0..(NODE_DEG - 2) |->
                                       IF j >= right_cnt - 1 THEN KDefault
                                       ELSE IF left_cnt + j < klen THEN n.keys[left_cnt + j]
                                       ELSE gk],
                          sons |-> [j \in 0..(NODE_DEG - 1) |->
                                       IF j >= right_cnt THEN NodeIndexDefault
                                       ELSE IF left_cnt + j < slen THEN n.sons[left_cnt + j]
                                       ELSE gs],
                          cnt |-> right_cnt],
               fault |-> IF left_cnt >= 1 THEN "none" ELSE "panic"]
              : gk \in HavocKeys, gs \in HavocSons}

-----------------------------------------------------------------------------
(* BTree: a tree is [i, l, root], the two arenas and the root handle *)

BTree_new == [i |-> <<>>, l |-> Push(<<>>, LeafNode_new), root |-> Leaf(0)]

\* Mutant: the leaf is stored over the last slot instead of being pushed.
alloc_leaf_overwrite(t, leaf) ==
    [t |-> [t EXCEPT !.l[VLen(t.l) - 1] = leaf], id |-> VLen(t.l) - 1]

alloc_leaf(t, leaf) == [t |-> [t EXCEPT !.l = Push(t.l, leaf)], id |-> VLen(t.l)]

alloc_internal(t, internal) ==
    [t |-> [t EXCEPT !.i = Push(t.i, internal)], id |-> VLen(t.i)]

\* Mutant: the new root is allocated but self.root is not set to it.
make_new_root_unset(t, first) == alloc_internal(t, InternalNode_new(first))

make_new_root(t, first) ==
    LET a == alloc_internal(t, InternalNode_new(first))
    IN  [t |-> [a.t EXCEPT !.root = Internal(a.id)], id |-> a.id]

\* The record of one call of a node's insert made by the driver: the cnt and
\* capacity of the node it is applied to, and pos (0 for a leaf).
CallRec(fn, cnt, cap, pos) == [fn |-> fn, cnt |-> cnt, cap |-> cap, pos |-> pos]

\* The state of the loop of BTree::insert: the tree, cur, father_id,
\* father_son_index, and what the call has done so far: path, the node each
\* iteration went on with; splits, the nodes split and the depth of each;
\* calls, the node inserts called; ret, once the leaf is reached.
InsertStart(t) ==
    [t |-> t, cur |-> t.root, father_id |-> None, father_son_index |-> 0,
     done |-> FALSE, ret |-> None, fault |-> "none", calls |-> <<>>, path |-> <<>>,
     splits |-> <<>>]

\* Mutant: the redirect compares with <=, so a key equal to left_max goes on
\* in the right node.
SplitStep_le(st, k, sp, a, tag, id0) ==
    LET right_id == a.id
        r == IF st.father_id.some THEN [t |-> a.t, id |-> st.father_id.val]
             ELSE make_new_root(a.t, [tag |-> tag, id |-> id0])
        fsi == IF st.father_id.some THEN st.father_son_index ELSE 0
        fa == r.t.i[r.id]
        ins == InternalNode_insert(fa, fsi + 1, sp.key, [tag |-> tag, id |-> right_id])
    IN  [t |-> [r.t EXCEPT !.i[r.id] = ins.node],
         id |-> IF sp.key <= k THEN right_id ELSE id0,
         fault |-> IF sp.fault # "none" THEN sp.fault ELSE ins.fault,
         call |-> CallRec("InternalNode::insert", fa.cnt, VLen(fa.sons), fsi + 1)]

\* if full { split; alloc; make_new_root if there is no father; fa.insert;
\* redirect to the right node if left_max < k }, for either node type.
\* Yields the tree, the id to go on with, the father and the fault.
SplitStep(st, k, sp, a, tag, id0) ==
    LET right_id == a.id
        r == IF st.father_id.some THEN [t |-> a.t, id |-> st.father_id.val]
             ELSE make_new_root(a.t, [tag |-> tag, id |-> id0])
        fsi == IF st.father_id.some THEN st.father_son_index ELSE 0
        fa == r.t.i[r.id]
        ins == InternalNode_insert(fa, fsi + 1, sp.key, [tag |-> tag, id |-> right_id])
    IN  [t |-> [r.t EXCEPT !.i[r.id] = ins.node],
         id |-> IF sp.key < k THEN right_id ELSE id0,
         fault |-> IF sp.fault # "none" THEN sp.fault ELSE ins.fault,
         call |-> CallRec("InternalNode::insert", fa.cnt, VLen(fa.sons), fsi + 1)]

\* One iteration of the loop of BTree::insert.
BTree_insert_step(st, k, v) ==
    LET id0 == st.cur.id
    IN  IF st.cur.tag = "Internal"
        THEN LET full == InternalNode_full(st.t.i[id0])
                 sp == InternalNode_split(st.t.i[id0])
                 a == alloc_internal([st.t EXCEPT !.i[id0] = sp.left], sp.right)
                 s == SplitStep(st, k, sp, a, "Internal", id0)
                 t1 == IF full THEN s.t ELSE st.t
                 id == IF full THEN s.id ELSE id0
                 tmp == InternalNode_lookup(t1.i[id], k)
                 splits1 == IF full
                            THEN Append(st.splits, [node |-> st.cur, depth |-> Len(st.path)])
                            ELSE st.splits
             IN  IF full /\ s.fault # "none"
                 THEN [st EXCEPT !.done = TRUE, !.fault = s.fault,
                                 !.calls = Append(@, s.call), !.splits = splits1]
                 ELSE IF tmp.fault # "none"
                 THEN [st EXCEPT !.t = t1, !.done = TRUE, !.fault = tmp.fault,
                                 !.calls = IF full THEN Append(@, s.call) ELSE @,
                                 !.splits = splits1]
                 ELSE [st EXCEPT !.t = t1,
                                 !.splits = splits1,
                                 !.father_id = Some(id),
                                 !.father_son_index = tmp.pos,
                                 !.cur = tmp.son,
                                 !.calls = IF full THEN Append(@, s.call) ELSE @,
                                 !.path = Append(@, Internal(id))]
        ELSE LET full == LeafNode_full(st.t.l[id0])
                 sp == LeafNode_split(st.t.l[id0])
                 a == alloc_leaf([st.t EXCEPT !.l[id0] = sp.left], sp.right)
                 s == SplitStep(st, k, sp, a, "Leaf", id0)
                 t1 == IF full THEN s.t ELSE st.t
                 id == IF full THEN s.id ELSE id0
                 calls1 == IF full THEN Append(st.calls, s.call) ELSE st.calls
                 ins == LeafNode_insert(t1.l[id], k, v)
                 splits1 == IF full
                            THEN Append(st.splits, [node |-> st.cur, depth |-> Len(st.path)])
                            ELSE st.splits
             IN  IF full /\ s.fault # "none"
                 THEN [st EXCEPT !.done = TRUE, !.fault = s.fault, !.calls = calls1,
                                 !.splits = splits1]
                 ELSE [st EXCEPT !.t = [t1 EXCEPT !.l[id] = ins.node],
                                 !.splits = splits1,
                                 !.done = TRUE,
                                 !.ret = ins.ret,
                                 !.fault = ins.fault,
                                 !.calls = Append(calls1,
                                     CallRec("LeafNode::insert", t1.l[id].cnt,
                                             VLen(t1.l[id].keys), 0)),
                                 !.path = Append(@, Leaf(id))]

RECURSIVE BTree_insert_loop(_, _, _)
BTree_insert_loop(st, k, v) ==
    IF st.done THEN st ELSE BTree_insert_loop(BTree_insert_step(st, k, v), k, v)

\* BTree::insert: the final loop state; .t is the tree, .ret the result.
BTree_insert(t, k, v) == BTree_insert_loop(InsertStart(t), k, v)

\* BTree::lookup: the loop from cur; path collects the nodes visited.
RECURSIVE BTree_lookup_loop(_, _, _, _)
BTree_lookup_loop(t, cur, k, path) ==
    IF cur.tag = "Internal"
    THEN LET tmp == InternalNode_lookup(t.i[cur.id], k)
         IN  IF tmp.fault # "none"
             THEN [ret |-> None, path |-> Append(path, cur), fault |-> tmp.fault]
             ELSE BTree_lookup_loop(t, tmp.son, k, Append(path, cur))
    ELSE [ret |-> LeafNode_lookup(t.l[cur.id], k), path |-> Append(path, cur),
          fault |-> "none"]

BTree_lookup(t, k) == BTree_lookup_loop(t, t.root, k, <<>>)

-----------------------------------------------------------------------------
(* The state machine: a tree driven next to a reference map, as in         *)
(* tests::test_bree_1                                                      *)

VARIABLES tree, truth, last, fault, unit

vars == <<tree, truth, last, fault, unit>>

\* BTreeMap::get and BTreeMap::insert of the reference map
TruthGet(m, k) == IF k \in DOMAIN m THEN Some(m[k]) ELSE None
TruthInsert(m, k, v) == [j \in DOMAIN m \cup {k} |-> IF j = k THEN v ELSE m[j]]

NoUnit == [test |-> "none", op |-> "none", node |-> <<>>, arg |-> <<>>, out |-> <<>>]

Init ==
    /\ tree = BTree_new
    /\ truth = <<>>
    /\ last = [op |-> "new", k |-> 0, v |-> 0, ret |-> None, expect |-> None,
               calls |-> <<>>, path |-> <<>>, splits |-> <<>>]
    /\ fault = "none"
    /\ unit = NoUnit

\* t.insert(&k, &v) next to truth.insert(k, v)
Insert(k, v) ==
    /\ fault = "none"
    /\ LET r == BTree_insert(tree, k, v)
       IN  /\ tree' = r.t
           /\ fault' = r.fault
           /\ last' = [op |-> "insert", k |-> k, v |-> v, ret |-> r.ret,
                       expect |-> TruthGet(truth, k), calls |-> r.calls,
                       path |-> r.path, splits |-> r.splits]
    /\ truth' = TruthInsert(truth, k, v)
    /\ UNCHANGED unit

\* Mutant: the loop variable is the root itself, left at the leaf reached.
Lookup_moves_root(k) ==
    /\ fault = "none"
    /\ LET r == BTree_lookup(tree, k)
       IN  /\ last' = [op |-> "lookup", k |-> k, v |-> 0, ret |-> r.ret,
                       expect |-> TruthGet(truth, k), calls |-> <<>>,
                       path |-> r.path, splits |-> <<>>]
           /\ tree' = [tree EXCEPT !.root = r.path[Len(r.path)]]
           /\ fault' = r.fault
    /\ UNCHANGED <<truth, unit>>

\* t.lookup(&k) next to truth.get(&k): &self, nothing is written
Lookup(k) ==
    /\ fault = "none"
    /\ LET r == BTree_lookup(tree, k)
       IN  /\ last' = [op |-> "lookup", k |-> k, v |-> 0, ret |-> r.ret,
                       expect |-> TruthGet(truth, k), calls |-> <<>>, path |-> r.path,
                       splits |-> <<>>]
           /\ fault' = r.fault
    /\ UNCHANGED <<tree, truth, unit>>

Next ==
    \/ \E k \in Keys, v \in Vals : Insert(k, v)
    \/ \E k \in Keys : Lookup(k)

Spec == Init /\ [][Next]_vars

\* Dense keys in any order, each with itself as its value.
NextDense ==
    \/ \E k \in DenseKeys : Insert(k, k)
    \/ \E k \in DenseKeys : Lookup(k)

SpecDense == Init /\ [][NextDense]_vars

\* The ascending run: the next key is the number of keys inserted so far.
NextAsc ==
    \/ \E k \in AscKeys : k = Cardinality(DOMAIN truth) /\ Insert(k, k)
    \/ \E k \in AscKeys : Lookup(k)

SpecAsc == Init /\ [][NextAsc]_vars

-----------------------------------------------------------------------------
(* The node-level harness, as in test_lower_bound, test_leaf_node and      *)
(* test_internal_node: one node, or one slice, and the calls made on it.   *)
(* A panic or an abort ends the harness; a call with undefined behaviour   *)
(* that returns does not.  SpecUnit makes the calls without undefined      *)
(* behaviour, SpecUb those on a full node.                                 *)

UnitLive == unit.op = "none" \/ unit.out.fault = "none"

\* Sorted slices (equal neighbours allowed) of at most MaxLen keys.
SortedSlices ==
    UNION {{a \in [0..(n - 1) -> Keys] : \A j \in 0..(n - 2) : a[j] <= a[j + 1]}
           : n \in 0..MaxLen}

UnitLowerBound(a, val) ==
    /\ unit.test \in {"none", "lower_bound"}
    /\ unit' = [test |-> "lower_bound", op |-> "lower_bound", node |-> <<>>,
                arg |-> [a |-> a, val |-> val],
                out |-> [ret |-> lower_bound(a, val), fault |-> "none", ub |-> FALSE]]
    /\ UNCHANGED <<tree, truth, last, fault>>

UnitLeafNew ==
    /\ unit.test = "none"
    /\ unit' = [test |-> "leaf", op |-> "LeafNode::new", node |-> LeafNode_new,
                arg |-> <<>>, out |-> [fault |-> "none", ub |-> FALSE]]
    /\ UNCHANGED <<tree, truth, last, fault>>

UnitLeafInsert(k, v) ==
    /\ unit.test = "leaf" /\ UnitLive
    /\ LET r == LeafNode_insert(unit.node, k, v)
       IN  unit' = [test |-> "leaf", op |-> "LeafNode::insert", node |-> r.node,
                    arg |-> [node |-> unit.node, k |-> k, v |-> v],
                    out |-> [ret |-> r.ret, fault |-> r.fault, ub |-> FALSE]]
    /\ UNCHANGED <<tree, truth, last, fault>>

UnitLeafSplit ==
    /\ unit.test = "leaf" /\ UnitLive
    /\ LET r == LeafNode_split(unit.node)
       IN  unit' = [test |-> "leaf", op |-> "LeafNode::split", node |-> r.left,
                    arg |-> [node |-> unit.node],
                    out |-> [key |-> r.key, right |-> r.right, fault |-> r.fault,
                             ub |-> FALSE]]
    /\ UNCHANGED <<tree, truth, last, fault>>

UnitInternalNew(first) ==
    /\ unit.test = "none"
    /\ unit' = [test |-> "internal", op |-> "InternalNode::new",
                node |-> InternalNode_new(first),
                arg |-> <<>>, out |-> [fault |-> "none", ub |-> FALSE, tainted |-> FALSE]]
    /\ UNCHANGED <<tree, truth, last, fault>>

\* The handle the test passes as right, as NodeIndex::Leaf(5) next to the
\* sons Leaf(0) .. Leaf(4) in test_internal_node: of the tag of the first
\* son, with the least id that no son in the slots 0 .. min(cnt, NODE_DEG) - 1
\* of n has.
FreshSon(n) ==
    LET m == IF n.cnt < VLen(n.sons) THEN n.cnt ELSE VLen(n.sons)
        used == {n.sons[j].id : j \in 0..(m - 1)}
    IN  [tag |-> IF n.sons[0].tag = "Internal" THEN "Internal" ELSE "Leaf",
         id |-> CHOOSE id \in 0..m : id \notin used /\ \A x \in 0..(id - 1) : x \in used]

\* i.insert(pos, &left_max, right) for a position 1..cnt, as the driver
\* calls it after a split of the son at pos - 1: left_max lies between the
\* separators around it (those that are slots of keys), right is a handle
\* no son has.  out.ub tells that this call had undefined behaviour,
\* out.tainted that this or an earlier call of the test had; a test makes
\* one insert with undefined behaviour at most.
UnitInternalInsert(pos, left_max) ==
    /\ unit.test = "internal" /\ UnitLive
    /\ unit.out.tainted =>
           InternalNode_insert(unit.node, pos, left_max, FreshSon(unit.node)).fault # "ub"
    /\ pos \in 1..unit.node.cnt
    /\ (pos >= 2 /\ pos - 2 < VLen(unit.node.keys)) => unit.node.keys[pos - 2] < left_max
    /\ (pos <= unit.node.cnt - 1 /\ pos - 1 < VLen(unit.node.keys))
           => left_max < unit.node.keys[pos - 1]
    /\ LET right == FreshSon(unit.node)
       IN  \E o \in InternalNode_insert_outcomes(unit.node, pos, left_max, right) :
               unit' = [test |-> "internal", op |-> "InternalNode::insert",
                        node |-> o.node,
                        arg |-> [node |-> unit.node, pos |-> pos,
                                 left_max |-> left_max, right |-> right],
                        out |-> [fault |-> o.fault,
                                 ub |-> InternalNode_insert(unit.node, pos, left_max,
                                                            right).fault = "ub",
                                 tainted |-> \/ unit.out.tainted
                                             \/ InternalNode_insert(unit.node, pos, left_max,
                                                                    right).fault = "ub"]]
    /\ UNCHANGED <<tree, truth, last, fault>>

UnitInternalSplit ==
    /\ unit.test = "internal" /\ UnitLive
    /\ \E r \in InternalNode_split_outcomes(unit.node) :
           unit' = [test |-> "internal", op |-> "InternalNode::split", node |-> r.left,
                    arg |-> [node |-> unit.node],
                    out |-> [key |-> r.key, right |-> r.right, fault |-> r.fault,
                             ub |-> InternalNode_split(unit.node).fault = "ub",
                             tainted |-> \/ unit.out.tainted
                                         \/ InternalNode_split(unit.node).fault = "ub"]]
    /\ UNCHANGED <<tree, truth, last, fault>>

\* The calls of InternalNode::insert that test_internal_node makes: on a
\* node that is not full, or at a position where a bounds check panics.
UnitDefined(pos, left_max) ==
    /\ unit.test = "internal"
    /\ InternalNode_insert(unit.node, pos, left_max, FreshSon(unit.node)).fault # "ub"

UnitFullInput(pos, left_max) ==
    /\ unit.test = "internal"
    /\ \/ unit.out.tainted
       \/ InternalNode_full(unit.node) /\ left_max = 0
       \/ ~InternalNode_full(unit.node) /\ pos = unit.node.cnt /\ left_max = pos

NextUnit ==
    \/ \E a \in SortedSlices, val \in 0..(MaxKey + 1) : UnitLowerBound(a, val)
    \/ UnitLeafNew
    \/ \E k \in Keys, v \in Vals : UnitLeafInsert(k, v)
    \/ UnitLeafSplit
    \/ \E first \in {Leaf(0), Internal(0)} : UnitInternalNew(first)
    \/ \E pos \in 1..NODE_DEG, left_max \in Keys :
           UnitDefined(pos, left_max) /\ UnitInternalInsert(pos, left_max)
    \/ UnitInternalSplit

SpecUnit == Init /\ [][NextUnit]_vars

\* The calls of the test of a full node: a leaf is filled and inserted
\* into; an internal node gets its sons one after the last with the keys
\* 1, 2, ..., and when it is full a son with the key 0 at a position before
\* the last; after that call, any call without undefined behaviour.
NextUb ==
    \/ UnitLeafNew
    \/ \E k \in Keys, v \in Vals : UnitLeafInsert(k, v)
    \/ UnitInternalNew(Leaf(0))
    \/ \E pos \in 1..NODE_DEG, left_max \in Keys :
           UnitFullInput(pos, left_max) /\ UnitInternalInsert(pos, left_max)
    \/ UnitInternalSplit

SpecUb == Init /\ [][NextUb]_vars

-----------------------------------------------------------------------------
(* Properties *)

RootCnt(t) == IF t.root.tag = "Internal" THEN t.i[t.root.id].cnt ELSE t.l[t.root.id].cnt

RootFull(t) ==
    IF t.root.tag = "Internal" THEN InternalNode_full(t.i[t.root.id])
    ELSE LeafNode_full(t.l[t.root.id])

\* The entries of a sequence.
Range(q) == {q[j] : j \in DOMAIN q}

\* C1: every call of insert and lookup returns, and returns what the
\* reference map returns for the same call: the previous value of k (or
\* None) for insert, the value of the latest insert of k (or None) for
\* lookup.
C1_Differential ==
    /\ fault = "none"
    /\ last.op \in {"insert", "lookup"} => last.ret = last.expect

\* C1 witness: below an internal root, an insert replaced a different value
\* and returned it.
C1_Witness ==
    /\ last.op = "insert"
    /\ tree.root.tag = "Internal"
    /\ last.ret.some /\ last.ret = last.expect /\ last.ret.val # last.v

\* C2 as stated: after an insert has returned the root is not full.
C2_RootNeverFull == last.op = "insert" => ~RootFull(tree)

\* C2 amended: the root never holds more than NODE_DEG entries, and a root
\* that was full when an insert began is not full when that insert returns.
C2_RootFullOnlyTransient ==
    /\ [](RootCnt(tree) <= NODE_DEG)
    /\ [][(last'.op = "insert" /\ RootFull(tree)) => ~RootFull(tree')]_vars

\* C2 witness: the insert split the root (a split at depth 0), and the new
\* root has room; the tree is three levels high.
C2_Witness ==
    /\ last.op = "insert"
    /\ \E sp \in Range(last.splits) : sp.depth = 0 /\ sp.node.tag = "Internal"
    /\ tree.root \notin Range(last.path)
    /\ ~RootFull(tree)

\* C3: the driver calls LeafNode::insert only on a leaf with cnt < NODE_DEG
\* and InternalNode::insert only on a father with cnt < NODE_DEG and a
\* position 1 <= pos <= cnt; no assert or bounds check fires, no write
\* leaves its array, and no node holds more than NODE_DEG entries.
C3_InsertPreconditions ==
    /\ fault = "none"
    /\ \A c \in Range(last.calls) :
           /\ c.cap = NODE_DEG
           /\ c.cnt < NODE_DEG
           /\ c.fn = "InternalNode::insert" => (1 <= c.pos /\ c.pos <= c.cnt)
    /\ \A j \in DOMAIN tree.l : tree.l[j].cnt <= NODE_DEG
    /\ \A j \in DOMAIN tree.i : tree.i[j].cnt <= NODE_DEG

\* C3 witness: one insert split an internal node below the root and a leaf
\* below it, and a father took its last free slot.
C3_Witness ==
    /\ last.op = "insert"
    /\ \E sp \in Range(last.splits) : sp.depth >= 1 /\ sp.node.tag = "Internal"
    /\ \E sp \in Range(last.splits) : sp.node.tag = "Leaf"
    /\ \E c \in Range(last.calls) :
           c.fn = "InternalNode::insert" /\ c.cnt = NODE_DEG - 1

\* C4 as stated: insert on a full node, leaf or internal (any position
\* 1..cnt), is signalled as a fault and does not write to the node.
C4_FullInsertFaults ==
    /\ (unit.op = "LeafNode::insert" /\ unit.arg.node.cnt = NODE_DEG)
           => (unit.out.fault # "none" /\ unit.node = unit.arg.node)
    /\ (unit.op = "InternalNode::insert" /\ unit.arg.node.cnt = NODE_DEG)
           => (unit.out.fault # "none" /\ unit.node = unit.arg.node)

\* C5: once the keys 0 .. NODE_DEG^2 have been inserted in ascending order
\* the root is an internal node, and the root is a leaf only while at most
\* NODE_DEG distinct keys have been inserted.
C5_RootLeafOnlySmall ==
    /\ Cardinality(DOMAIN truth) = NODE_DEG * NODE_DEG + 1 => tree.root.tag = "Internal"
    /\ tree.root.tag = "Leaf" => Cardinality(DOMAIN truth) <= NODE_DEG

\* C5 witness: the insert of the key NODE_DEG^2 has returned.
C5_Witness ==
    /\ last.op = "insert" /\ last.k = NODE_DEG * NODE_DEG
    /\ DOMAIN truth = AscKeys
    /\ tree.root.tag = "Internal"

\* C6: a lookup step, of a present or an absent key, leaves root and both
\* arenas as they were.
C6_LookupFrame == [][last'.op = "lookup" => tree' = tree]_vars

\* C6 witness: a lookup went down from an internal root and missed.
C6_Witness ==
    /\ last.op = "lookup"
    /\ Len(last.path) >= 2
    /\ ~last.ret.some

\* C7: on a sorted slice a of length n, lower_bound(a, v) is an index i in
\* 0..n with a[j] < v for all j < i and (i = n or a[i] >= v); it is 0 for
\* n = 0, and the first index of an element equal to v when there is one.
C7_LowerBound ==
    unit.op = "lower_bound" =>
        LET a == unit.arg.a
            v == unit.arg.val
            n == VLen(a)
            i == unit.out.ret
        IN  /\ i \in 0..n
            /\ \A j \in 0..(i - 1) : a[j] < v
            /\ i = n \/ a[i] >= v
            /\ n = 0 => i = 0
            /\ (\E j \in 0..(n - 1) : a[j] = v)
                   => (a[i] = v /\ \A j \in 0..(i - 1) : a[j] # v)

\* C7 witness: the slice holds v twice, not at its start, and the first of
\* the two was returned.
C7_Witness ==
    /\ unit.op = "lower_bound"
    /\ LET a == unit.arg.a
           i == unit.out.ret
       IN  /\ i >= 1 /\ i + 1 < VLen(a)
           /\ a[i] = unit.arg.val /\ a[i + 1] = unit.arg.val

\* The (key, value) pairs and the keys of a leaf's valid range.
LeafPairs(n) == {<<n.keys[j], n.values[j]>> : j \in 0..(n.cnt - 1)}
LeafKeys(n) == {n.keys[j] : j \in 0..(n.cnt - 1)}
StrictlySorted(keys, cnt) == \A j \in 0..(cnt - 2) : keys[j] < keys[j + 1]

\* C8: LeafNode::split of a sorted leaf with n >= 2 entries leaves
\* floor(n/2) of them in the node and puts the others in the right node;
\* every pair is in exactly one of the two, both are strictly increasing,
\* the separator is the largest left key, left keys <= separator < right
\* keys, and a lookup of a key in the other node is absent.
C8_LeafSplit ==
    (/\ unit.op = "LeafNode::split"
     /\ unit.arg.node.cnt >= 2
     /\ StrictlySorted(unit.arg.node.keys, unit.arg.node.cnt)) =>
        LET pre == unit.arg.node
            left == unit.node
            right == unit.out.right
            sep == unit.out.key
            n == pre.cnt
        IN  /\ unit.out.fault = "none"
            /\ left.cnt = n \div 2
            /\ right.cnt = n - (n \div 2)
            /\ left.cnt + right.cnt = n
            /\ LeafPairs(left) \cup LeafPairs(right) = LeafPairs(pre)
            /\ LeafKeys(left) \cap LeafKeys(right) = {}
            /\ StrictlySorted(left.keys, left.cnt)
            /\ StrictlySorted(right.keys, right.cnt)
            /\ sep \in LeafKeys(left)
            /\ \A x \in LeafKeys(left) : x <= sep
            /\ \A x \in LeafKeys(right) : sep < x
            /\ \A p \in LeafPairs(left) :
                   /\ LeafNode_lookup(left, p[1]) = Some(p[2])
                   /\ LeafNode_lookup(right, p[1]) = None
            /\ \A p \in LeafPairs(right) :
                   /\ LeafNode_lookup(right, p[1]) = Some(p[2])
                   /\ LeafNode_lookup(left, p[1]) = None

\* C8 witness: a full leaf was split.
C8_Witness ==
    /\ unit.op = "LeafNode::split"
    /\ unit.arg.node.cnt = NODE_DEG
    /\ unit.out.fault = "none"
    /\ unit.node.cnt + unit.out.right.cnt = NODE_DEG

\* C9: InternalNode::insert(pos, left_max, right) on a node that is not
\* full, 1 <= pos <= cnt, yields the sons old[0..pos) ++ [right] ++
\* old[pos..cnt) and the keys old[0..pos-1) ++ [left_max] ++
\* old[pos-1..cnt-1), and cnt + 1; with pos = cnt no old son or key changes.
C9_InternalInsert ==
    (/\ unit.op = "InternalNode::insert"
     /\ unit.arg.node.cnt < NODE_DEG
     /\ 1 <= unit.arg.pos /\ unit.arg.pos <= unit.arg.node.cnt) =>
        LET pre == unit.arg.node
            post == unit.node
            pos == unit.arg.pos
        IN  /\ unit.out.fault = "none" /\ ~unit.out.ub
            /\ post.cnt = pre.cnt + 1
            /\ \A j \in 0..(post.cnt - 1) :
                   post.sons[j] = IF j < pos THEN pre.sons[j]
                                  ELSE IF j = pos THEN unit.arg.right
                                  ELSE pre.sons[j - 1]
            /\ \A j \in 0..(post.cnt - 2) :
                   post.keys[j] = IF j < pos - 1 THEN pre.keys[j]
                                  ELSE IF j = pos - 1 THEN unit.arg.left_max
                                  ELSE pre.keys[j - 1]
            /\ pos = pre.cnt =>
                   /\ \A j \in 0..(pre.cnt - 1) : post.sons[j] = pre.sons[j]
                   /\ \A j \in 0..(pre.cnt - 2) : post.keys[j] = pre.keys[j]

\* C9 witness: a son was inserted before the last son, so a key and a son
\* were shifted.
C9_Witness ==
    /\ unit.op = "InternalNode::insert"
    /\ unit.arg.pos < unit.arg.node.cnt
    /\ unit.arg.node.cnt < NODE_DEG
    /\ unit.out.fault = "none"
    /\ unit.node.sons[unit.arg.pos] = unit.arg.right
    /\ unit.node.keys[unit.arg.pos] # unit.arg.left_max

\* The keys stored in the subtree of a handle, and the keys of the leaves
\* below it from left to right.
RECURSIVE SubtreeKeys(_, _)
SubtreeKeys(t, h) ==
    IF h.tag = "Leaf" THEN LeafKeys(t.l[h.id])
    ELSE UNION {SubtreeKeys(t, t.i[h.id].sons[j]) : j \in 0..(t.i[h.id].cnt - 1)}

RECURSIVE InOrder(_, _)
RECURSIVE InOrderSons(_, _, _)
InOrder(t, h) ==
    IF h.tag = "Leaf" THEN [j \in 1..t.l[h.id].cnt |-> t.l[h.id].keys[j - 1]]
    ELSE InOrderSons(t, t.i[h.id], 0)

InOrderSons(t, n, j) ==
    IF j >= n.cnt THEN <<>> ELSE InOrder(t, n.sons[j]) \o InOrderSons(t, n, j + 1)

RECURSIVE Height(_, _)
Height(t, h) == IF h.tag = "Leaf" THEN 1 ELSE 1 + Height(t, t.i[h.id].sons[0])

SetMax(S) == CHOOSE x \in S : \A y \in S : y <= x

\* C10: every internal node has 1 <= cnt <= NODE_DEG; for i in [0, cnt-1),
\* keys[i] is the largest key in the subtree of sons[i] and every key in the
\* subtree of sons[i+1] is greater; so the separators of a node strictly
\* increase and the leaves from left to right hold the stored keys in
\* strictly increasing order.
C10_Separators ==
    /\ \A id \in DOMAIN tree.i :
           LET n == tree.i[id]
           IN  /\ 1 <= n.cnt /\ n.cnt <= NODE_DEG
               /\ \A j \in 0..(n.cnt - 2) :
                      /\ SubtreeKeys(tree, n.sons[j]) # {}
                      /\ n.keys[j] = SetMax(SubtreeKeys(tree, n.sons[j]))
                      /\ \A x \in SubtreeKeys(tree, n.sons[j + 1]) : n.keys[j] < x
               /\ \A j \in 0..(n.cnt - 3) : n.keys[j] < n.keys[j + 1]
    /\ LET walk == InOrder(tree, tree.root)
       IN  /\ \A j \in 1..(Len(walk) - 1) : walk[j] < walk[j + 1]
           /\ Range(walk) = DOMAIN truth

\* C10 witness: a tree three levels high holding every dense key, in which
\* an internal node below the root was split and some node is full.
C10_Witness ==
    /\ Height(tree, tree.root) >= 3
    /\ DOMAIN truth = DenseKeys
    /\ \E sp \in Range(last.splits) : sp.depth >= 1 /\ sp.node.tag = "Internal"
    /\ \E id \in DOMAIN tree.i : tree.i[id].cnt = NODE_DEG

\* C11: every leaf has cnt <= NODE_DEG and strictly increasing keys in
\* [0, cnt), and no key is stored in two leaves.
C11_Leaves ==
    /\ \A j \in DOMAIN tree.l :
           /\ tree.l[j].cnt <= NODE_DEG
           /\ StrictlySorted(tree.l[j].keys, tree.l[j].cnt)
    /\ \A j1, j2 \in DOMAIN tree.l :
           j1 # j2 => LeafKeys(tree.l[j1]) \cap LeafKeys(tree.l[j2]) = {}

\* C11 witness: an insert split a full leaf, went on in the left half with
\* a key equal to the separator, and the tree has three leaves or more.
C11_Witness ==
    /\ last.op = "insert"
    /\ \E sp \in Range(last.splits) :
           /\ sp.node.tag = "Leaf"
           /\ last.path[Len(last.path)] = sp.node
           /\ last.k = SetMax(LeafKeys(tree.l[sp.node.id]))
    /\ VLen(tree.l) >= 3

\* The depths (root = 1) at which the subtree of h has a node of the tag.
RECURSIVE DepthsOf(_, _, _, _)
DepthsOf(t, h, d, tag) ==
    (IF h.tag = tag THEN {d} ELSE {})
    \cup (IF h.tag = "Leaf" THEN {}
          ELSE UNION {DepthsOf(t, t.i[h.id].sons[j], d + 1, tag)
                      : j \in 0..(t.i[h.id].cnt - 1)})

\* C12: all leaves are at the same depth, and no depth has both a leaf and
\* an internal node.
C12_Balanced ==
    /\ Cardinality(DepthsOf(tree, tree.root, 1, "Leaf")) = 1
    /\ DepthsOf(tree, tree.root, 1, "Leaf")
           \cap DepthsOf(tree, tree.root, 1, "Internal") = {}

\* C12 witness: leaves at depth 3, below a root whose sons are both
\* internal nodes with sons of their own.
C12_Witness ==
    /\ DepthsOf(tree, tree.root, 1, "Leaf") = {3}
    /\ VLen(tree.l) >= 4
    /\ last.op = "insert" /\ Len(last.splits) = 2

\* The handles of the nodes in the arenas of t.
Handles(t) == {Leaf(j) : j \in DOMAIN t.l} \cup {Internal(j) : j \in DOMAIN t.i}

\* C13: an insert changes the root handle exactly when the root was full
\* when it began; then the height grows by one and the new root is an
\* internal node appended by this insert, with two sons (the old root, then
\* the old root's new right sibling, also appended by this insert) and one
\* separator; otherwise, whatever else the insert splits, the root handle
\* and the height stay.
C13_RootChange ==
    [][last'.op = "insert" =>
          /\ (tree'.root # tree.root) <=> RootFull(tree)
          /\ RootFull(tree) =>
                 /\ Height(tree', tree'.root) = Height(tree, tree.root) + 1
                 /\ tree'.root.tag = "Internal"
                 /\ tree'.root \notin Handles(tree)
                 /\ tree'.root \in Handles(tree')
                 /\ LET n == tree'.i[tree'.root.id]
                    IN  /\ n.cnt = 2
                        /\ n.sons[0] = tree.root
                        /\ n.sons[1].tag = tree.root.tag
                        /\ n.sons[1] \notin Handles(tree)
                        /\ n.sons[1] \in Handles(tree')
                        /\ n.keys[0] = SetMax(SubtreeKeys(tree', tree.root))
          /\ ~RootFull(tree) =>
                 /\ tree'.root = tree.root
                 /\ Height(tree', tree'.root) = Height(tree, tree.root)]_vars

\* C13 witness: an insert split an internal root and a leaf below it; the
\* root is a new node with two sons, the first the node split at depth 0,
\* and the tree is three levels high.
C13_Witness ==
    /\ last.op = "insert"
    /\ Len(last.splits) = 2
    /\ last.splits[1].depth = 0 /\ last.splits[1].node.tag = "Internal"
    /\ tree.root.tag = "Internal"
    /\ tree.i[tree.root.id].cnt = 2
    /\ tree.i[tree.root.id].sons[0] = last.splits[1].node
    /\ Height(tree, tree.root) = 3

\* C13 also has a case without a root change: a node below the root is
\* split and the root and the height stay.
C13_WitnessNonRoot ==
    /\ last.op = "insert"
    /\ Len(last.splits) = 2
    /\ last.splits[1].depth = 1 /\ last.splits[1].node.tag = "Internal"
    /\ tree.root \in Range(last.path)

\* C14: InternalNode::split of a full node (cnt sons, increasing separators)
\* keeps sons[0 .. cnt/2) in the node and puts the other sons, in order from
\* index 0, in the right node; the two counts add up to cnt and the sons of
\* left then right are the old sons, each once; the separator returned is
\* the old keys[cnt/2 - 1]; left keeps the keys before it, right gets the
\* keys after it, and neither has the separator among its valid keys.
C14_InternalSplit ==
    (/\ unit.op = "InternalNode::split"
     /\ InternalNode_full(unit.arg.node)
     /\ StrictlySorted(unit.arg.node.keys, unit.arg.node.cnt - 1)) =>
        LET pre == unit.arg.node
            left == unit.node
            right == unit.out.right
            h == pre.cnt \div 2
        IN  /\ unit.out.fault = "none"
            /\ left.cnt = h
            /\ left.cnt + right.cnt = pre.cnt
            /\ \A j \in 0..(left.cnt - 1) : left.sons[j] = pre.sons[j]
            /\ \A j \in 0..(right.cnt - 1) : right.sons[j] = pre.sons[h + j]
            /\ unit.out.key = pre.keys[h - 1]
            /\ \A j \in 0..(left.cnt - 2) : left.keys[j] = pre.keys[j]
            /\ \A j \in 0..(right.cnt - 2) : right.keys[j] = pre.keys[h + j]
            /\ \A j \in 0..(left.cnt - 2) : left.keys[j] # unit.out.key
            /\ \A j \in 0..(right.cnt - 2) : right.keys[j] # unit.out.key

\* C14 witness: a full internal node with distinct sons was split and the
\* right node got a key.
C14_Witness ==
    /\ unit.op = "InternalNode::split"
    /\ InternalNode_full(unit.arg.node)
    /\ StrictlySorted(unit.arg.node.keys, unit.arg.node.cnt - 1)
    /\ \A j1, j2 \in 0..(unit.arg.node.cnt - 1) :
           j1 # j2 => unit.arg.node.sons[j1] # unit.arg.node.sons[j2]
    /\ unit.out.right.cnt >= 2
    /\ unit.out.key > 0

\* The node a handle of t names.
NodeAt(t, h) == IF h.tag = "Leaf" THEN t.l[h.id] ELSE t.i[h.id]

SplitsOf(splits, tag) == {j \in DOMAIN splits : splits[j].node.tag = tag}

\* C15: an insert keeps every slot of both arenas in place and only appends:
\* one leaf per leaf split, one internal node per internal split and one
\* more for a new root; the nodes split are nodes of the old descent path
\* of the key, at most one per level, so at most one node per level visited
\* and one root are appended; a node split keeps its handle and the lower
\* part of its keys, the others are under a handle appended by this insert;
\* and every node that is not on the descent path of the key is unchanged.
C15_ArenasAppendOnly ==
    [][last'.op = "insert" =>
          LET k == last'.k
              sp == last'.splits
              old_path == Range(BTree_lookup(tree, k).path)
              root_split == IF \E j \in DOMAIN sp : sp[j].depth = 0 THEN 1 ELSE 0
          IN  /\ DOMAIN tree.l \subseteq DOMAIN tree'.l
              /\ DOMAIN tree.i \subseteq DOMAIN tree'.i
              /\ VLen(tree'.l) = VLen(tree.l) + Cardinality(SplitsOf(sp, "Leaf"))
              /\ VLen(tree'.i) = VLen(tree.i) + Cardinality(SplitsOf(sp, "Internal"))
                                     + root_split
              /\ \A j \in DOMAIN sp : sp[j].node \in old_path
              /\ \A j1, j2 \in DOMAIN sp :
                     j1 # j2 => /\ sp[j1].node # sp[j2].node
                                /\ sp[j1].depth # sp[j2].depth
              /\ Len(sp) <= Len(last'.path)
              /\ Cardinality(Handles(tree')) - Cardinality(Handles(tree))
                     <= Len(last'.path) + 1
              /\ \A j \in DOMAIN sp :
                     LET before == SubtreeKeys(tree, sp[j].node)
                         kept == SubtreeKeys(tree', sp[j].node) \ {k}
                         moved == (before \ kept) \ {k}
                     IN  /\ kept \subseteq before
                         /\ \A a \in kept, b \in moved : a < b
                         /\ \E h \in Handles(tree') \ Handles(tree) :
                                /\ h.tag = sp[j].node.tag
                                /\ moved # {}
                                /\ SubtreeKeys(tree', h) \ {k} = moved
              /\ \A h \in Handles(tree) \ old_path : NodeAt(tree', h) = NodeAt(tree, h)]_vars

\* C15 witness: an insert split an internal node below the root and a leaf,
\* in a tree with a leaf that is on neither the path nor split.
C15_Witness ==
    /\ last.op = "insert"
    /\ Len(last.splits) = 2
    /\ last.splits[1].depth = 1
    /\ last.splits[2].node.tag = "Leaf"
    /\ \E j \in DOMAIN tree.l :
           /\ Leaf(j) \notin Range(last.path)
           /\ Leaf(j) # last.splits[2].node
           /\ j < VLen(tree.l) - 1

\* C16: every insert and every lookup returns; its descent takes as many
\* steps as the tree is high when the call begins, goes on with one node per
\* level, each the son of the one before it, never the same node twice, only
\* the last of them a leaf, and that leaf is the one the leaf operation
\* (LeafNode::insert or LeafNode::lookup) is applied to.
C16_Descent ==
    [][last'.op \in {"insert", "lookup"} =>
          LET p == last'.path
              n == Len(p)
          IN  /\ fault' = "none"
              /\ n = Height(tree, tree.root)
              /\ \A j1, j2 \in 1..n : j1 # j2 => p[j1] # p[j2]
              /\ \A j \in 1..n : p[j] \in Handles(tree')
              /\ \A j \in 1..n : (p[j].tag = "Leaf") <=> (j = n)
              /\ \A j \in 1..(n - 1) :
                     \E s \in 0..(tree'.i[p[j].id].cnt - 1) :
                         tree'.i[p[j].id].sons[s] = p[j + 1]
              /\ last'.op = "insert" =>
                     /\ <<last'.k, last'.v>> \in LeafPairs(tree'.l[p[n].id])
                     /\ \E c \in Range(last'.calls) : c.fn = "LeafNode::insert"
              /\ last'.op = "lookup" =>
                     /\ p[1] = tree.root
                     /\ last'.ret = LeafNode_lookup(tree.l[p[n].id], last'.k)]_vars

\* C16 witness: a lookup went down three levels and found its key.
C16_Witness ==
    /\ last.op = "lookup"
    /\ Len(last.path) = 3
    /\ last.ret.some

\* C16 also covers an insert that goes down three levels and splits on its
\* way.
C16_WitnessInsert ==
    /\ last.op = "insert"
    /\ Len(last.path) = 3
    /\ Len(last.splits) >= 1

\* C17: LeafNode::insert on a sorted leaf that is not full: with the key
\* present at slot j it returns the value of slot j and changes nothing but
\* that value; with the key absent it returns None, cnt grows by one, the
\* pair is at the slot counted by the smaller keys, the pairs before it
\* stay and the pairs after it move up one slot, values with their keys.
C17_LeafInsert ==
    (/\ unit.op = "LeafNode::insert"
     /\ ~LeafNode_full(unit.arg.node)
     /\ StrictlySorted(unit.arg.node.keys, unit.arg.node.cnt)) =>
        LET pre == unit.arg.node
            post == unit.node
            k == unit.arg.k
            v == unit.arg.v
            at == {j \in 0..(pre.cnt - 1) : pre.keys[j] = k}
            i == Cardinality({j \in 0..(pre.cnt - 1) : pre.keys[j] < k})
        IN  /\ unit.out.fault = "none"
            /\ at # {} =>
                   \A j \in at :
                       /\ unit.out.ret = Some(pre.values[j])
                       /\ post = [pre EXCEPT !.values[j] = v]
            /\ at = {} =>
                   /\ unit.out.ret = None
                   /\ post.cnt = pre.cnt + 1
                   /\ post.keys[i] = k /\ post.values[i] = v
                   /\ \A j \in 0..(i - 1) :
                          post.keys[j] = pre.keys[j] /\ post.values[j] = pre.values[j]
                   /\ \A j \in (i + 1)..(post.cnt - 1) :
                          /\ post.keys[j] = pre.keys[j - 1]
                          /\ post.values[j] = pre.values[j - 1]

\* C17 witness: an absent key went in before two pairs with different
\* values, which moved up.
C17_Witness ==
    /\ unit.op = "LeafNode::insert"
    /\ unit.out.ret = None
    /\ unit.arg.node.cnt = 2
    /\ unit.arg.k < unit.arg.node.keys[0]
    /\ unit.arg.node.values[0] # unit.arg.node.values[1]
    /\ unit.arg.v = unit.arg.node.values[1]

\* C17 also covers the overwrite: a present key got a different value.
C17_WitnessOverwrite ==
    /\ unit.op = "LeafNode::insert"
    /\ unit.out.ret.some
    /\ unit.out.ret.val # unit.arg.v
    /\ unit.arg.node.cnt = 2

\* C18: between inserts, every leaf but the root holds NODE_DEG \div 2
\* entries or more, every internal node but the root has NODE_DEG \div 2
\* sons or more, an internal root has two sons or more, and the only empty
\* leaf there can be is the root of the empty tree.
C18_MinOccupancy ==
    /\ \A j \in DOMAIN tree.l :
           /\ Leaf(j) # tree.root => tree.l[j].cnt >= NODE_DEG \div 2
           /\ tree.l[j].cnt = 0 => (Leaf(j) = tree.root /\ DOMAIN truth = {})
    /\ \A j \in DOMAIN tree.i :
           /\ Internal(j) # tree.root => tree.i[j].cnt >= NODE_DEG \div 2
           /\ Internal(j) = tree.root => tree.i[j].cnt >= 2

\* C18 witness: after an insert that split an internal root, the root has
\* two sons, and an internal node and a leaf, neither the root, hold
\* exactly NODE_DEG \div 2.
C18_Witness ==
    /\ last.op = "insert"
    /\ tree.root.tag = "Internal"
    /\ tree.root \notin Range(last.path)
    /\ tree.i[tree.root.id].cnt = 2
    /\ \E j \in DOMAIN tree.i :
           Internal(j) # tree.root /\ tree.i[j].cnt = NODE_DEG \div 2
    /\ \E j \in DOMAIN tree.l : tree.l[j].cnt = NODE_DEG \div 2

\* The valid son slots of t: <<id of the internal node, slot>>.
SonSlots(t) == {<<id, s>> \in (DOMAIN t.i) \X (0..(NODE_DEG - 1)) : s < t.i[id].cnt}

\* The handles reached from the handles S, by valid sons of existing nodes.
RECURSIVE ReachFrom(_, _)
ReachFrom(t, S) ==
    LET S2 == S \cup {t.i[h.id].sons[s] :
                         <<h, s>> \in {<<h, s>> \in S \X (0..(NODE_DEG - 1)) :
                                          /\ h.tag = "Internal"
                                          /\ h.id \in DOMAIN t.i
                                          /\ s < t.i[h.id].cnt}}
    IN  IF S2 = S THEN S ELSE ReachFrom(t, S2)

\* C19: between operations every valid son handle names a slot of its
\* arena, every node of both arenas is reached from the root, the root is
\* the son of no node and every other node is the son in exactly one valid
\* slot; so the handles form a tree.
C19_HandleTree ==
    /\ tree.root \in Handles(tree)
    /\ \A e \in SonSlots(tree) : tree.i[e[1]].sons[e[2]] \in Handles(tree)
    /\ ReachFrom(tree, {tree.root}) = Handles(tree)
    /\ \A e \in SonSlots(tree) : tree.i[e[1]].sons[e[2]] # tree.root
    /\ \A h \in Handles(tree) \ {tree.root} :
           Cardinality({e \in SonSlots(tree) : tree.i[e[1]].sons[e[2]] = h}) = 1
    /\ Cardinality(SonSlots(tree)) = Cardinality(Handles(tree)) - 1

\* C19 witness: a tree of three levels with three internal nodes and four
\* leaves or more, after an insert that shifted sons in a father.
C19_Witness ==
    /\ Height(tree, tree.root) = 3
    /\ VLen(tree.i) >= 3
    /\ VLen(tree.l) >= 4
    /\ last.op = "insert"
    /\ \E c \in Range(last.calls) : c.fn = "InternalNode::insert" /\ c.pos < c.cnt

\* The sum of cnt over the leaves l[0 .. n).
RECURSIVE SumCnt(_, _)
SumCnt(t, n) == IF n = 0 THEN 0 ELSE t.l[n - 1].cnt + SumCnt(t, n - 1)

\* The pairs held by the leaves of t.
StoredPairs(t) == UNION {LeafPairs(t.l[j]) : j \in DOMAIN t.l}

\* C20: the leaves hold as many entries as distinct keys were inserted; and
\* an insert of a key the tree holds returns the value it held, leaves the
\* number of entries and every pair of another key as they were and holds
\* the key with the new value, whether or not it splits nodes on its way.
C20_UpsertFrame ==
    /\ [](SumCnt(tree, VLen(tree.l)) = Cardinality(DOMAIN truth))
    /\ [][(/\ last'.op = "insert"
           /\ \E p \in StoredPairs(tree) : p[1] = last'.k) =>
              LET k == last'.k
                  held == {p \in StoredPairs(tree) : p[1] = k}
              IN  /\ \A p \in held : last'.ret = Some(p[2])
                  /\ StoredPairs(tree') = (StoredPairs(tree) \ held) \cup {<<k, last'.v>>}
                  /\ SumCnt(tree', VLen(tree'.l)) = SumCnt(tree, VLen(tree.l))
                  /\ VLen(tree'.l) + VLen(tree'.i)
                         = VLen(tree.l) + VLen(tree.i) + Len(last'.splits)
                               + (IF tree'.root # tree.root THEN 1 ELSE 0)]_vars

\* C20 witness: an insert of a stored key with another value split a leaf
\* on its way, so the arenas grew, the entries did not.
C20_Witness ==
    /\ last.op = "insert"
    /\ last.ret.some
    /\ last.ret.val # last.v
    /\ \E sp \in Range(last.splits) : sp.node.tag = "Leaf"
    /\ SumCnt(tree, VLen(tree.l)) < NODE_DEG + 1

\* C20 also covers a stored key whose insert splits an internal root.
C20_WitnessRoot ==
    /\ last.op = "insert"
    /\ last.ret.some
    /\ \E sp \in Range(last.splits) : sp.node.tag = "Internal"

=============================================================================
